---- MODULE Spec2Model ----
(***************************************************************************)
(* Model of simgsr/pull_yf_data: yf_to_db.py (FinancialDataFetcher: ticker *)
(* resolver, per-symbol lookup, numeric coercion, CSV upsert) and          *)
(* yf_to_df_folder.py (process_multiple_csv_files).                        *)
(*                                                                         *)
(* Text is a sequence of one-character strings.  A DataFrame / Series cell *)
(* is a pair <<tag, text>>: "str" (Python str), "num" (float, text is its  *)
(* repr), "nan" (float NaN), "none" (Python None).  A CSV file cell is     *)
(* plain text.                                                             *)
(***************************************************************************)
EXTENDS Integers, Sequences, FiniteSets, TLC

\* ---------------------------------------------------------------- bounds
MaxFiles == 3   \* directory entries of the batch folder
MaxCalls == 3   \* main() invocations of one session

\* ------------------------------------------------------------------ text
T_Ticker == <<"T","i","c","k","e","r">>
T_Sym    == <<"S","y","m">>
T_EQUITY == <<"E","Q","U","I","T","Y">>
T_ETF    == <<"E","T","F">>
T_N_A     == <<"N","/","A">>
T_Tech   == <<"T","e","c","h">>
T_inf    == <<"i","n","f">>
T_ninf   == <<"-","i","n","f">>
T_csv    == <<".","c","s","v">>

Digits == {"0","1","2","3","4","5","6","7","8","9"}

Range(s) == {s[j] : j \in 1..Len(s)}

SeqsUpTo(S, n) == UNION {[1..m -> S] : m \in 0..n}

NaN     == <<"nan", <<>>>>
None    == <<"none", <<>>>>
Missing == <<"missing", <<>>>>
Str(s)  == <<"str", s>>
Num(s)  == <<"num", s>>

IsStr(v) == v[1] = "str"

\* str.upper()
UpperChar(c) ==
  CASE c = "a" -> "A"
    [] c = "c" -> "C"
    [] c = "s" -> "S"
    [] c = "v" -> "V"
    [] c = "f" -> "F"
    [] c = "g" -> "G"
    [] c = "n" -> "N"
    [] OTHER   -> c

Upper(s) == [j \in 1..Len(s) |-> UpperChar(s[j])]

\* str.strip()
RECURSIVE LStrip(_)
LStrip(s) == IF s # <<>> /\ Head(s) = " " THEN LStrip(Tail(s)) ELSE s

RECURSIVE RStrip(_)
RStrip(s) ==
  IF s # <<>> /\ s[Len(s)] = " " THEN RStrip(SubSeq(s, 1, Len(s) - 1)) ELSE s

Strip(s) == RStrip(LStrip(s))

\* str.split(','): the pieces between commas, empty pieces kept
RECURSIVE SplitFrom(_, _)
SplitFrom(s, cur) ==
  IF s = <<>> THEN <<cur>>
  ELSE IF Head(s) = "," THEN <<cur>> \o SplitFrom(Tail(s), <<>>)
  ELSE SplitFrom(Tail(s), Append(cur, Head(s)))

Split(s) == SplitFrom(s, <<>>)

\* str.endswith(suffix)
EndsWith(s, suffix) ==
  /\ Len(s) >= Len(suffix)
  /\ SubSeq(s, Len(s) - Len(suffix) + 1, Len(s)) = suffix

\* ----------------------------------------------------- cells and parsing
T_A   == <<"A">>
T_a   == <<"a">>
T_NA == <<"N","A">>
T_x   == <<"x">>
T_1   == <<"1">>
T_2   == <<"2">>
T_err == <<"e","r","r">>

IsDigits(s) == s # <<>> /\ Range(s) \subseteq Digits

IsInfText(s) == s \in {T_inf, T_ninf}

IsNumberText(s) == IsDigits(s) \/ IsInfText(s)

\* the strings pandas.read_csv reads as NaN (keep_default_na=True)
NAValues ==
  { <<>>, T_N_A, T_NA, <<"N","a","N">>, <<"n","a","n">>, <<"n","/","a">>,
    <<"N","U","L","L">>, <<"n","u","l","l">>, <<"N","o","n","e">>,
    <<"#","N","/","A">>, <<"#","N","A">>, <<"<","N","A",">">> }

\* pandas.read_csv on one field of a file (a finite number is written in
\* digits, and its text is the same when written back)
ParseCell(text) ==
  IF text \in NAValues THEN NaN
  ELSE IF IsNumberText(text) THEN Num(text)
  ELSE Str(text)

\* DataFrame.to_csv on one cell (na_rep='')
WriteCell(v) == IF v[1] \in {"nan", "none"} THEN <<>> ELSE v[2]

\* pd.to_numeric(..., errors='coerce') on one cell
ToNumeric(v) ==
  CASE v[1] = "num" -> v
    [] v[1] = "str" -> IF IsNumberText(v[2]) THEN Num(v[2]) ELSE NaN
    [] OTHER        -> NaN

\* Series.replace([np.inf, -np.inf], np.nan) on one cell
ReplaceInf(v) == IF v[1] = "num" /\ IsInfText(v[2]) THEN NaN ELSE v

\* ---------------------------------------------------------------- schema
Columns == {"Ticker", "Security Type", "Sector", "Current Price", "EPS", "P/B Ratio"}

\* the numeric fields of the record built by get_ticker_info
NumericFields == {"Current Price", "EPS", "P/B Ratio"}

numeric_columns ==
  { "Current Price", "Net Income", "Shares Outstanding", "Market Cap",
    "P/E Ratio (TTM)", "Earnings Growth", "Dividend Yield",
    "5 Yrs Avg Dividend Yield", "Profit Margin", "Return on Equity",
    "Debt to Equity", "Free Cash Flow", "Total Revenue", "Gross Profits",
    "ROA", "ROE", "EPS" }

\* _convert_to_numeric: a DataFrame is a sequence of rows, a row a function
\* from column name to cell
ConvertCell(col, v) ==
  IF col \in numeric_columns THEN ReplaceInf(ToNumeric(v)) ELSE v

_convert_to_numeric(df) ==
  [r \in 1..Len(df) |-> [col \in DOMAIN df[r] |-> ConvertCell(col, df[r][col])]]

\* ------------------------------------------------------------- the store
\* the file at equity_file: absent, unparsable, or rows of text fields
AbsentStore  == [exists |-> FALSE, parsable |-> TRUE,  rows |-> <<>>]
CorruptStore == [exists |-> TRUE,  parsable |-> FALSE, rows |-> <<>>]

\* pd.read_csv(filename, index_col='Ticker')
ReadStore(file) ==
  [r \in 1..Len(file.rows) |->
     [col \in DOMAIN file.rows[r] |-> ParseCell(file.rows[r][col])]]

\* DataFrame.to_csv(filename, index=True)
ToCsv(df) ==
  [exists |-> TRUE, parsable |-> TRUE,
   rows |-> [r \in 1..Len(df) |-> [col \in DOMAIN df[r] |-> WriteCell(df[r][col])]]]

Index(df) == {df[r]["Ticker"] : r \in 1..Len(df)}

\* existing_df[~existing_df.index.isin(new_data.index)]
NotIn(new_data, row) == row["Ticker"] \notin Index(new_data)

DropUpdated(existing_df, new_data) ==
  LET Keep(row) == NotIn(new_data, row) IN SelectSeq(existing_df, Keep)

\* mutant: the parse error is swallowed and the merge goes on
UpdateRaises_Swallowed(file) == FALSE

\* _update_csv_file: pd.read_csv raises on a file it cannot parse
UpdateRaises(file) == file.exists /\ ~file.parsable

_update_csv_file(new_data, file) ==
  IF file.exists
  THEN LET existing_df == _convert_to_numeric(ReadStore(file))
           combined_df == DropUpdated(existing_df, new_data) \o new_data
       IN  ToCsv(combined_df)
  ELSE ToCsv(new_data)

\* ------------------------------------------------------------- resolver
\* an instruction file: unreadable (missing, malformed), or a table
Unreadable == [readable |-> FALSE, columns |-> <<>>, rows |-> <<>>]

Table(cols, rows) == [readable |-> TRUE, columns |-> cols, rows |-> rows]

\* the instruction files of the model: unreadable; a header alone; one
\* symbol; a Ticker column that is not the first, with a lowercase symbol;
\* no Ticker column, with an empty field
InstructionFiles ==
  { Unreadable,
    Table(<<T_Ticker>>, <<>>),
    Table(<<T_Ticker>>, << <<T_A>> >>),
    Table(<<T_Sym, T_Ticker>>, << <<T_x, T_a>>, <<T_x, T_A>> >>),
    Table(<<T_Sym>>, << <<T_A>>, <<<<>>>> >>) }

ColumnAt(content, name) ==
  CHOOSE c \in 1..Len(content.columns) : content.columns[c] = name

\* df[...].tolist() of the table pd.read_csv returns
ColumnValues(content, c) ==
  [r \in 1..Len(content.rows) |-> ParseCell(content.rows[r][c])]

\* get_tickers: the symbol list (content is the file at user_input)
get_tickers(user_input, content) ==
  IF EndsWith(user_input, T_csv)
  THEN IF ~content.readable THEN <<>>
       ELSE IF T_Ticker \in Range(content.columns)
            THEN ColumnValues(content, ColumnAt(content, T_Ticker))
            ELSE ColumnValues(content, 1)
  ELSE LET parts == Split(user_input)
       IN  [j \in 1..Len(parts) |-> Str(Upper(Strip(parts[j])))]

\* --------------------------------------------------------------- lookup
\* what yf.Ticker(symbol).info can be: a dict (a key may be missing), or the
\* call raises
InfoKeys == {"quoteType", "sector", "currentPrice", "epsTrailingTwelveMonths", "priceToBook"}

EmptyInfo == [key \in InfoKeys |-> Missing]

InfoEquity1 ==
  [quoteType |-> Str(T_EQUITY), sector |-> Str(T_Tech), currentPrice |-> Num(T_1),
   epsTrailingTwelveMonths |-> Num(T_2), priceToBook |-> Num(T_2)]

InfoEquity2 ==
  [quoteType |-> Str(T_EQUITY), sector |-> Missing, currentPrice |-> Num(T_inf),
   epsTrailingTwelveMonths |-> Str(T_x), priceToBook |-> Num(T_inf)]

InfoEtf == [EmptyInfo EXCEPT !["quoteType"] = Str(T_ETF)]

KnownSymbols == {Str(T_A), Str(T_NA)}

Raises == [raised |-> TRUE, info |-> EmptyInfo]

Returns(info) == [raised |-> FALSE, info |-> info]

\* the provider's possible answers for a symbol: any lookup may raise; a
\* symbol the provider lists has an info dict with a quoteType, any other
\* symbol an empty one
Lookup(ticker_symbol) ==
  IF ticker_symbol \in KnownSymbols
  THEN {Raises} \cup {Returns(d) : d \in {InfoEtf, InfoEquity1, InfoEquity2}}
  ELSE {Raises, Returns(EmptyInfo)}

\* dict.get(key) / dict.get(key, default)
Get(info, key, default) == IF info[key] = Missing THEN default ELSE info[key]

\* get_ticker_info: the Series built from the provider's answer
get_ticker_info(ticker_symbol, answer) ==
  IF answer.raised
  THEN [col \in {"Ticker", "Error"} |->
          IF col = "Ticker" THEN ticker_symbol ELSE Str(T_err)]
  ELSE [col \in Columns |->
          CASE col = "Ticker"        -> ticker_symbol
            [] col = "Security Type" -> Get(answer.info, "quoteType", Str(T_N_A))
            [] col = "Sector"        -> Get(answer.info, "sector", Str(T_N_A))
            [] col = "Current Price" -> Get(answer.info, "currentPrice", None)
            [] col = "EPS"           -> Get(answer.info, "epsTrailingTwelveMonths", None)
            [] col = "P/B Ratio"     -> Get(answer.info, "priceToBook", None)]

\* data.get('Security Type', 'N/A')
SecurityType(data) ==
  IF "Security Type" \in DOMAIN data THEN data["Security Type"] ELSE Str(T_N_A)

IsError(data) == "Error" \in DOMAIN data

\* mutant: everything that is not an ETF counts as equity
IsEquity_NotEtf(data) == SecurityType(data) # Str(T_ETF)

IsEquity(data) == SecurityType(data) = Str(T_EQUITY)

\* ---------------------------------------------------------------- state
VARIABLES
  store,               \* the file at equity_file ('yf_data.csv')
  pc,                  \* where the running program is
  mode,                \* "none", "direct" (main called) or "batch"
  calls,               \* main() invocations so far
  csv_files,           \* process_multiple_csv_files: the files to process
  i,                   \* process_multiple_csv_files: loop index (1-based)
  processed,           \* the paths main() was called with, in order
  sleeps,              \* time.sleep calls of the batch
  caught,              \* exceptions caught by the batch's except clause
  user_input,          \* get_financial_data: the instruction
  tickers,             \* get_financial_data: the resolved symbols
  k,                   \* fetch_and_save_ticker_data: next symbol (1-based)
  equity_data,         \* fetch_and_save_ticker_data: equity Series
  non_equity_tickers,  \* fetch_and_save_ticker_data: non-equity symbols
  failed_tickers,      \* fetch_and_save_ticker_data: failed symbols
  outcomes,            \* the Series get_ticker_info returned, in order
  old_store,           \* the store file when the call started
  result               \* how get_financial_data ended

vars ==
  <<store, pc, mode, calls, csv_files, i, processed, sleeps, caught, user_input,
    tickers, k, equity_data, non_equity_tickers, failed_tickers, outcomes,
    old_store, result>>

batchVars == <<csv_files, i, processed, sleeps, caught>>

fetchVars == <<k, equity_data, non_equity_tickers, failed_tickers, outcomes>>

F_csv == <<"f">> \o T_csv
G_csv == <<"g">> \o T_csv
H_csv == <<"h">> \o T_csv
R_txt == <<"r",".","t","x","t">>

\* os.listdir(csv_folder_path): distinct names, in any order
DirNames == {F_csv, G_csv, H_csv, R_txt}

Listings ==
  {l \in SeqsUpTo(DirNames, MaxFiles) :
     \A a, b \in 1..Len(l) : a # b => l[a] # l[b]}

\* what main() can be called with outside the batch
InlineInputs ==
  { <<>>,
    <<"a">>,
    <<"N","a">>,
    <<"a",",","a">>,
    <<" ","a",",",",">>,
    <<"a",",","N","a",","," ","a">> }

DirectInputs == InlineInputs \cup {F_csv}

IsCsvName(f) == EndsWith(f, T_csv)

\* pd.DataFrame(equity_data), set_index('Ticker'), _convert_to_numeric
equity_df == _convert_to_numeric(equity_data)

Init ==
  /\ store \in {AbsentStore, CorruptStore}
  /\ pc = "idle"
  /\ mode = "none"
  /\ calls = 0
  /\ csv_files = <<>>
  /\ i = 0
  /\ processed = <<>>
  /\ sleeps = 0
  /\ caught = 0
  /\ user_input = <<>>
  /\ tickers = <<>>
  /\ k = 0
  /\ equity_data = <<>>
  /\ non_equity_tickers = <<>>
  /\ failed_tickers = <<>>
  /\ outcomes = <<>>
  /\ old_store = AbsentStore
  /\ result = "none"

\* the locals of a get_financial_data call that has returned
ClearCall ==
  /\ user_input' = <<>>
  /\ tickers' = <<>>
  /\ k' = 0
  /\ equity_data' = <<>>
  /\ non_equity_tickers' = <<>>
  /\ failed_tickers' = <<>>
  /\ outcomes' = <<>>
  /\ old_store' = AbsentStore
  /\ result' = "none"

\* main(csv_filename) / get_yf_data called directly
StartMain(u) ==
  /\ pc = "idle"
  /\ calls < MaxCalls
  /\ mode' = "direct"
  /\ calls' = calls + 1
  /\ user_input' = u
  /\ old_store' = store
  /\ pc' = "resolve"
  /\ UNCHANGED <<store, batchVars, tickers, fetchVars, result>>

\* process_multiple_csv_files: list the folder; return if no CSV file
StartBatch(listing) ==
  /\ pc = "idle"
  /\ LET files == SelectSeq(listing, IsCsvName)
     IN  /\ calls + Len(files) <= MaxCalls
         /\ csv_files' = files
         /\ i' = IF files = <<>> THEN 0 ELSE 1
         /\ pc' = IF files = <<>> THEN "finished" ELSE "call"
  /\ mode' = "batch"
  /\ UNCHANGED <<store, calls, processed, sleeps, caught, user_input, tickers,
                 fetchVars, old_store, result>>

\* process_multiple_csv_files: main(csv_path) for the i-th file
BatchCall ==
  /\ pc = "call"
  /\ user_input' = csv_files[i]
  /\ processed' = Append(processed, csv_files[i])
  /\ calls' = calls + 1
  /\ old_store' = store
  /\ pc' = "resolve"
  /\ UNCHANGED <<store, mode, csv_files, i, sleeps, caught, tickers, fetchVars, result>>

\* mutant: no test for an empty symbol list
Resolve_NoEmptyCheck(content) ==
  /\ pc = "resolve"
  /\ LET t == get_tickers(user_input, content)
     IN  /\ tickers' = t
         /\ IF \E j \in 1..Len(t) : ~IsStr(t[j])
            THEN result' = "TypeError" /\ pc' = "ret" /\ k' = 0
            ELSE result' = "none" /\ pc' = "fetch" /\ k' = 1
  /\ UNCHANGED <<store, mode, calls, batchVars, user_input, equity_data,
                 non_equity_tickers, failed_tickers, outcomes, old_store>>

\* get_financial_data up to the call of fetch_and_save_ticker_data:
\* get_tickers, the empty check, and the ', '.join(tickers) of the progress
\* line, which raises TypeError on a symbol that is not a str
Resolve(content) ==
  /\ pc = "resolve"
  /\ LET t == get_tickers(user_input, content)
     IN  /\ tickers' = t
         /\ IF t = <<>>
            THEN result' = "noop" /\ pc' = "ret" /\ k' = 0
            ELSE IF \E j \in 1..Len(t) : ~IsStr(t[j])
            THEN result' = "TypeError" /\ pc' = "ret" /\ k' = 0
            ELSE result' = "none" /\ pc' = "fetch" /\ k' = 1
  /\ UNCHANGED <<store, mode, calls, batchVars, user_input, equity_data,
                 non_equity_tickers, failed_tickers, outcomes, old_store>>

\* mutant: a failed lookup ends the loop (break instead of continue)
Fetch_StopOnError ==
  /\ pc = "fetch"
  /\ k <= Len(tickers)
  /\ \E answer \in Lookup(tickers[k]) :
     LET ticker == tickers[k]
         data   == get_ticker_info(ticker, answer)
     IN  /\ outcomes' = Append(outcomes, data)
         /\ IF IsError(data)
            THEN /\ failed_tickers' = Append(failed_tickers, ticker)
                 /\ k' = Len(tickers) + 1
                 /\ UNCHANGED <<equity_data, non_equity_tickers>>
            ELSE IF IsEquity(data)
            THEN /\ equity_data' = Append(equity_data, data)
                 /\ k' = k + 1
                 /\ UNCHANGED <<non_equity_tickers, failed_tickers>>
            ELSE /\ non_equity_tickers' = Append(non_equity_tickers, ticker)
                 /\ k' = k + 1
                 /\ UNCHANGED <<equity_data, failed_tickers>>
  /\ UNCHANGED <<store, pc, mode, calls, batchVars, user_input, tickers,
                 old_store, result>>

\* fetch_and_save_ticker_data: one iteration of the loop over tickers
Fetch ==
  /\ pc = "fetch"
  /\ k <= Len(tickers)
  /\ \E answer \in Lookup(tickers[k]) :
     LET ticker == tickers[k]
         data   == get_ticker_info(ticker, answer)
     IN  /\ outcomes' = Append(outcomes, data)
         /\ IF IsError(data)
            THEN /\ failed_tickers' = Append(failed_tickers, ticker)
                 /\ UNCHANGED <<equity_data, non_equity_tickers>>
            ELSE IF IsEquity(data)
            THEN /\ equity_data' = Append(equity_data, data)
                 /\ UNCHANGED <<non_equity_tickers, failed_tickers>>
            ELSE /\ non_equity_tickers' = Append(non_equity_tickers, ticker)
                 /\ UNCHANGED <<equity_data, failed_tickers>>
  /\ k' = k + 1
  /\ UNCHANGED <<store, pc, mode, calls, batchVars, user_input, tickers,
                 old_store, result>>

\* fetch_and_save_ticker_data after the loop: merge the equity rows, return
Save ==
  /\ pc = "fetch"
  /\ k > Len(tickers)
  /\ IF equity_data # <<>> /\ UpdateRaises(store)
     THEN result' = "StoreError" /\ UNCHANGED store
     ELSE /\ result' = "returned"
          /\ store' = IF equity_data # <<>>
                      THEN _update_csv_file(equity_df, store)
                      ELSE store
  /\ pc' = "ret"
  /\ UNCHANGED <<mode, calls, batchVars, user_input, tickers, fetchVars, old_store>>

\* a direct main() call ends (its exception, if any, reaches the caller)
ReturnDirect ==
  /\ pc = "ret"
  /\ mode = "direct"
  /\ pc' = "idle"
  /\ mode' = "none"
  /\ ClearCall
  /\ UNCHANGED <<store, calls, batchVars>>

\* mutant: no except clause, an exception ends the batch
BatchAfter_NoExcept ==
  /\ pc = "ret"
  /\ mode = "batch"
  /\ caught' = caught
  /\ pc' = IF result = "returned" /\ i < Len(csv_files) THEN "sleep" ELSE "finished"
  /\ ClearCall
  /\ UNCHANGED <<store, mode, calls, csv_files, i, processed, sleeps>>

\* process_multiple_csv_files: the rest of the try block (len(None) raises
\* TypeError after a no-op), the except clause, and the test before the sleep
BatchAfter ==
  /\ pc = "ret"
  /\ mode = "batch"
  /\ caught' = IF result = "returned" THEN caught ELSE caught + 1
  /\ pc' = IF i < Len(csv_files) THEN "sleep" ELSE "finished"
  /\ ClearCall
  /\ UNCHANGED <<store, mode, calls, csv_files, i, processed, sleeps>>

\* process_multiple_csv_files: time.sleep(delay_seconds), next iteration
Sleep ==
  /\ pc = "sleep"
  /\ sleeps' = sleeps + 1
  /\ i' = i + 1
  /\ pc' = "call"
  /\ UNCHANGED <<store, mode, calls, csv_files, processed, caught, user_input,
                 tickers, fetchVars, old_store, result>>

\* process_multiple_csv_files returns
Finish ==
  /\ pc = "finished"
  /\ pc' = "idle"
  /\ mode' = "none"
  /\ csv_files' = <<>>
  /\ i' = 0
  /\ processed' = <<>>
  /\ sleeps' = 0
  /\ caught' = 0
  /\ UNCHANGED <<store, calls, user_input, tickers, fetchVars, old_store, result>>

ContentsFor(u) == IF IsCsvName(u) THEN InstructionFiles ELSE {Unreadable}

\* the steps of a running batch
BatchStep ==
  \/ BatchCall
  \/ \E content \in ContentsFor(user_input) : Resolve(content)
  \/ Fetch
  \/ Save
  \/ BatchAfter
  \/ Sleep
  \/ Finish

Next ==
  \/ \E u \in DirectInputs : StartMain(u)
  \/ \E listing \in Listings : StartBatch(listing)
  \/ BatchStep
  \/ ReturnDirect

Spec == Init /\ [][Next]_vars

\* the batch script alone: yf_to_df_folder.py run on a folder, repeatedly
BatchNext ==
  \/ \E listing \in Listings : StartBatch(listing)
  \/ BatchStep

\* a started batch keeps running: every call it makes returns
BatchSpec == Init /\ [][BatchNext]_vars /\ WF_vars(BatchStep)

\* ------------------------------------------------------------ properties
TickerOf(row) == row["Ticker"]

\* the rows of a store file, none for an absent file
RowsOf(file) == IF file.exists /\ file.parsable THEN file.rows ELSE <<>>

\* the rows handed to the merge, as the merge writes them
NewRows == ToCsv(equity_df).rows

NewKeys == {TickerOf(NewRows[r]) : r \in 1..Len(NewRows)}

WithKey(rows, t) == LET Has(row) == TickerOf(row) = t IN SelectSeq(rows, Has)

WithoutKeys(rows, keys) ==
  LET Stays(row) == TickerOf(row) \notin keys IN SelectSeq(rows, Stays)

\* a get_financial_data call has just merged its equity rows into the store
Merged == pc = "ret" /\ result = "returned" /\ equity_data # <<>>

\* C1: the persisted table has at most one row per ticker symbol
C1_OneRowPerTicker ==
  \A a, b \in 1..Len(RowsOf(store)) :
    a # b => TickerOf(RowsOf(store)[a]) # TickerOf(RowsOf(store)[b])

\* C2: after a merge, for every ticker of the new rows, the table's rows with
\* that ticker are the new rows, and no existing row with that ticker is kept
\* (the table holds no more than the other existing rows plus the new rows)
C2_LastWriteWins ==
  Merged =>
    /\ \A t \in NewKeys : WithKey(RowsOf(store), t) = WithKey(NewRows, t)
    /\ Len(RowsOf(store)) =
         Len(WithoutKeys(RowsOf(old_store), NewKeys)) + Len(NewRows)

\* C3: the table written by a merge is the existing rows whose ticker is not
\* among the new rows, in order and unchanged, followed by the new rows; with
\* no table at the store path it is exactly the new rows
C3_ReferenceResult ==
  Merged =>
    /\ RowsOf(store) = WithoutKeys(RowsOf(old_store), NewKeys) \o NewRows
    /\ ~old_store.exists => RowsOf(store) = NewRows

\* C4: a merge against an existing store file that cannot be parsed ends in
\* an error of the call and leaves the store file as it was
C4_CorruptStoreFailsLoud ==
  (pc = "ret" /\ equity_data # <<>> /\ old_store.exists /\ ~old_store.parsable)
    => (result = "StoreError" /\ store = old_store)

C4_Witness ==
  /\ pc = "ret"
  /\ equity_data # <<>>
  /\ old_store = CorruptStore
  /\ result = "StoreError"
  /\ store = CorruptStore

\* C5: every numeric field of every row of the persisted table is a finite
\* number or absent (an empty field)
C5_NumericFieldsFinite ==
  \A r \in 1..Len(RowsOf(store)) : \A col \in NumericFields :
    LET cell == RowsOf(store)[r][col] IN cell = <<>> \/ IsDigits(cell)

\* the classification of one outcome, stated on the Series itself
Failed(data) == "Error" \in DOMAIN data

Equity(data) == ~Failed(data) /\ data["Security Type"] = Str(T_EQUITY)

Other(data) == ~Failed(data) /\ data["Security Type"] # Str(T_EQUITY)

Symbols(series) == [j \in 1..Len(series) |-> series[j]["Ticker"]]

\* C6: the outcomes are split, in input order, into failed (Error-tagged),
\* equity (Security Type exactly EQUITY) and non-equity (the rest); the three
\* cover the outcomes once each, and only the equity records reach the merge
C6_Partition ==
  (pc \in {"fetch", "ret"} /\ result \in {"none", "returned", "StoreError"}) =>
    /\ failed_tickers = Symbols(SelectSeq(outcomes, Failed))
    /\ equity_data = SelectSeq(outcomes, Equity)
    /\ non_equity_tickers = Symbols(SelectSeq(outcomes, Other))
    /\ Len(failed_tickers) + Len(equity_data) + Len(non_equity_tickers) = Len(outcomes)
    /\ (pc = "ret" /\ result = "returned") =>
         /\ Len(RowsOf(store)) <= Len(RowsOf(old_store)) + Len(SelectSeq(outcomes, Equity))
         /\ SelectSeq(outcomes, Equity) = <<>> => store = old_store
         /\ SelectSeq(outcomes, Equity) # <<>> =>
              SubSeq(RowsOf(store), Len(RowsOf(store)) - Len(NewRows) + 1,
                     Len(RowsOf(store)))
                = ToCsv(_convert_to_numeric(SelectSeq(outcomes, Equity))).rows

C6_Witness ==
  /\ pc = "ret"
  /\ result = "returned"
  /\ Len(outcomes) = 3
  /\ Len(failed_tickers) = 1
  /\ Len(equity_data) = 1
  /\ Len(non_equity_tickers) = 1
  /\ Len(RowsOf(store)) = Len(RowsOf(old_store)) + 1

\* C7: every symbol the resolver returns is a non-empty uppercase string
C7_SymbolsUppercase ==
  \A j \in 1..Len(tickers) :
    /\ IsStr(tickers[j])
    /\ tickers[j][2] # <<>>
    /\ Upper(tickers[j][2]) = tickers[j][2]

\* C8: an instruction that resolves to zero symbols is a no-op: no lookup is
\* made and the store file is neither created nor modified
C8_EmptyIsNoOp ==
  (pc \in {"fetch", "ret"} /\ tickers = <<>>) =>
    (result = "noop" /\ pc = "ret" /\ outcomes = <<>> /\ store = old_store)

C8_Witness ==
  /\ pc = "ret"
  /\ tickers = <<>>
  /\ result = "noop"
  /\ IsCsvName(user_input)
  /\ outcomes = <<>>
  /\ store = old_store

\* C9: a failed lookup does not stop the loop: when fetch_and_save_ticker_data
\* is done every symbol has been looked up once, in order, the failed ones are
\* in failed_tickers, and the equity records are the last rows of the store
C9_FailureDoesNotAbort ==
  (pc = "ret" /\ result \in {"returned", "StoreError"}) =>
    /\ Symbols(outcomes) = tickers
    /\ \A j \in 1..Len(outcomes) :
         Failed(outcomes[j]) => \E f \in 1..Len(failed_tickers) : failed_tickers[f] = tickers[j]
    /\ result = "StoreError" => (old_store.exists /\ ~old_store.parsable)
    /\ result = "returned" =>
         \A j \in 1..Len(outcomes) :
           Equity(outcomes[j]) =>
             \E r \in 1..Len(RowsOf(store)) :
               RowsOf(store)[r] = ToCsv(_convert_to_numeric(<<outcomes[j]>>)).rows[1]

C9_Witness ==
  /\ pc = "ret"
  /\ result = "returned"
  /\ Len(outcomes) = 2
  /\ Failed(outcomes[1])
  /\ Equity(outcomes[2])
  /\ failed_tickers = <<tickers[1]>>
  /\ Len(RowsOf(store)) = Len(RowsOf(old_store)) + 1

\* C10: the batch calls main() once for every CSV file of the folder, in
\* order, whatever the earlier calls did, sleeps once between two consecutive
\* files and not after the last, and finishes
C10_BatchCompletes ==
  /\ [](pc = "finished" => (processed = csv_files /\ sleeps = IF csv_files = <<>> THEN 0 ELSE Len(csv_files) - 1))
  /\ []((mode = "batch" /\ pc \in {"resolve", "fetch", "ret"}) =>
          (processed = SubSeq(csv_files, 1, i) /\ sleeps = i - 1))
  /\ [](pc = "call" => <>(pc = "finished"))

C10_Witness ==
  /\ pc = "finished"
  /\ Len(csv_files) = 2
  /\ processed = csv_files
  /\ caught >= 1
  /\ sleeps = 1

====
